---- MODULE Spec2Model ----
(***************************************************************************)
(* Model of the OneDrive client facade (src/src/onedrive.py): the response *)
(* normalizer, the drive operations over a remote drive reached through a  *)
(* transport, the local filesystem used by download_file, and the memoized *)
(* client factory.                                                         *)
(***************************************************************************)
EXTENDS Integers, Sequences, FiniteSets, TLC

(* ---------------------------------------------------------------------- *)
(* Optional values: None is the empty tuple, Some(v) the one-tuple.        *)
(* ---------------------------------------------------------------------- *)
None == <<>>

Some(v) == <<v>>

\* Python's `x or default` on an Optional[str]: None and "" are falsy.
OrElse(opt, default) == IF opt = None \/ opt = Some("") THEN default ELSE opt[1]

\* Strings built by f-strings are token sequences; Contains is `key in msg`.
Contains(msg, key) ==
    \E i \in 0..(Len(msg) - Len(key)) : SubSeq(msg, i + 1, i + Len(key)) = key

(* ---------------------------------------------------------------------- *)
(* Response normalizer                                                     *)
(* ---------------------------------------------------------------------- *)
DOWNLOAD_URL_KEY == "@microsoft.graph.downloadUrl"

\* dict.get(key): the value, or None when the key is missing.
DictGet(d, key) == IF key \in DOMAIN d THEN Some(d[key]) ELSE None

DriveItemInfo(id, name, size, mime_type, is_folder, created_at, modified_at, web_url, download_url) ==
    [id |-> id, name |-> name, size |-> size, mime_type |-> mime_type,
     is_folder |-> is_folder, created_at |-> created_at,
     modified_at |-> modified_at, web_url |-> web_url,
     download_url |-> download_url]

is_file(info) == ~info.is_folder

Ok(v) == [kind |-> "ok", exc |-> "", msg |-> <<>>, value |-> Some(v)]

Raise(exc, msg) == [kind |-> "raise", exc |-> exc, msg |-> msg, value |-> None]

NoOutcome == [kind |-> "none", exc |-> "", msg |-> <<>>, value |-> None]

\* _to_drive_item_info: item.additional_data.get(...) raises AttributeError
\* when additional_data is None; every other field is read defensively.
to_drive_item_info(item) ==
    IF item.additional_data = None
    THEN Raise("AttributeError", <<"'NoneType' object has no attribute 'get'">>)
    ELSE Ok(DriveItemInfo(
            OrElse(item.id, ""),
            OrElse(item.name, ""),
            item.size,
            IF item.file # None THEN item.file[1].mime_type ELSE None,
            item.folder # None,
            item.created_date_time,
            item.last_modified_date_time,
            item.web_url,
            DictGet(item.additional_data[1], DOWNLOAD_URL_KEY)))

(* ---------------------------------------------------------------------- *)
(* State                                                                   *)
(* ---------------------------------------------------------------------- *)
VARIABLES
    items,      \* remote drive D1: the set of item records below the root
    nextId,     \* remote: index of the next identifier the service assigns
    envLeft,    \* remote changes other actors may still make
    dirs,       \* local filesystem: existing directories
    files,      \* local filesystem: set of [path, content] regular files
    pc,         \* position of the facade call in progress
    call,       \* the call in progress: operation and arguments
    local,      \* value awaited by the previous step of the call
    reqs,       \* transport requests issued by the call in progress
    outcome,    \* what the call returned or raised
    callsLeft,  \* facade calls the caller may still start
    during,     \* remote states the call in progress has spanned, in order
    raw,        \* normalizer: the raw record handed in
    out,        \* normalizer: the value or exception produced
    cache,      \* lru_cache of get_onedrive_client: None or Some(instance)
    constructed,\* number of OneDriveClient instances constructed so far
    tpc,        \* factory callers: position of each thread
    tmine,      \* factory callers: instance built by the thread's call
    tret,       \* factory callers: instances returned to each thread so far
    tcalls      \* factory callers: calls each thread may still make

driveVars == <<items, nextId, envLeft, dirs, files, pc, call, local, reqs, outcome,
               callsLeft, during>>

normVars == <<raw, out>>

factoryVars == <<cache, constructed, tpc, tmine, tret, tcalls>>

vars == <<items, nextId, envLeft, dirs, files, pc, call, local, reqs, outcome,
          callsLeft, during, raw, out, cache, constructed, tpc, tmine, tret, tcalls>>

(* ---------------------------------------------------------------------- *)
(* Bounds                                                                  *)
(* ---------------------------------------------------------------------- *)
MaxItems == 4

MaxEnv == 1

MaxCalls == 1

MaxThreads == 3

MaxFactoryCalls == 2

(* ---------------------------------------------------------------------- *)
(* The remote drive as the transport sees it                               *)
(* ---------------------------------------------------------------------- *)
IdSeq == <<"i1", "i2", "i3", "i4", "i5", "i6">>

IdsUpTo(n) == {IdSeq[k] : k \in 1..n}

CallerNames == {"a", "b"}

\* Names the service picks on a rename-on-conflict, in order of preference.
RenameCandidates(name) ==
    CASE name = "a" -> <<"a 1", "a 2", "a 3", "a 4", "a 5">>
      [] name = "b" -> <<"b 1", "b 2", "b 3", "b 4", "b 5">>
      [] OTHER -> <<>>

Contents == {<<7>>, <<8, 9>>}

RootItem == [id |-> "root", name |-> "root", parent |-> "", isFolder |-> TRUE, content |-> <<>>]

HasItem(S, id) == id = "root" \/ \E it \in S : it.id = id

ItemOf(S, id) == IF id = "root" THEN RootItem ELSE CHOOSE it \in S : it.id = id

ChildrenOf(S, folder) == {it \in S : it.parent = folder}

\* The child of `folder` called `name`: Some(id) or None.
ChildNamed(S, folder, name) ==
    IF \E it \in S : it.parent = folder /\ it.name = name
    THEN Some((CHOOSE it \in S : it.parent = folder /\ it.name = name).id)
    ELSE None

\* Walk a slash-separated path (tokens name, "/", name, ...) from `start`.
RECURSIVE Walk(_, _, _)
Walk(S, start, path) ==
    IF path = <<>> THEN Some(start)
    ELSE LET step == ChildNamed(S, start, path[1])
         IN  IF step = None THEN None
             ELSE IF Len(path) = 1 THEN step
             ELSE IF path[2] # "/" THEN None
             ELSE Walk(S, step[1], SubSeq(path, 3, Len(path)))

\* The item an address names on the known drive: an identifier, or the
\* path-addressing syntax  <item>:/<path>:  relative to that item.
ResolveAddr(S, drive, addr) ==
    IF drive # "D1" \/ addr = <<>> THEN None
    ELSE IF Len(addr) = 1
         THEN (IF HasItem(S, addr[1]) THEN Some(addr[1]) ELSE None)
    ELSE IF Len(addr) >= 4 /\ addr[2] = ":/" /\ addr[Len(addr)] = ":" /\ HasItem(S, addr[1])
         THEN Walk(S, addr[1], SubSeq(addr, 3, Len(addr) - 1))
    ELSE None

RECURSIVE Descendants(_, _)
Descendants(S, id) ==
    LET kids == ChildrenOf(S, id)
    IN  kids \cup UNION {Descendants(S \ kids, k.id) : k \in kids}

Shapes == {"full", "bare", "nodata"}

EmptyDict == [k \in {} |-> ""]

\* The raw DriveItem the SDK hands back for a remote item.
RawOf(it, shape) ==
    [id |-> IF shape = "bare" THEN None ELSE Some(it.id),
     name |-> IF shape = "bare" THEN None ELSE Some(it.name),
     size |-> IF it.isFolder THEN None ELSE Some(Len(it.content)),
     file |-> IF it.isFolder THEN None ELSE Some([mime_type |-> Some("text/plain")]),
     folder |-> IF it.isFolder THEN Some("folder") ELSE None,
     created_date_time |-> None,
     last_modified_date_time |-> None,
     web_url |-> None,
     additional_data |-> IF shape = "nodata" THEN None ELSE Some(EmptyDict)]

\* Children in service order (order of creation).
RECURSIVE ChildSeq(_, _, _)
ChildSeq(S, folder, k) ==
    IF k > Len(IdSeq) THEN <<>>
    ELSE (IF \E it \in S : it.id = IdSeq[k] /\ it.parent = folder
          THEN <<ItemOf(S, IdSeq[k])>> ELSE <<>>) \o ChildSeq(S, folder, k + 1)

(* ---------------------------------------------------------------------- *)
(* Transport: what a request does to the remote and what it answers.       *)
(* A response is [kind, exc, body, served, items, nextId]: kind "fail"     *)
(* raises exc, "nothing" answers None, "record" answers body; served is    *)
(* the item the service acted on; items/nextId are the remote afterwards.  *)
(* ---------------------------------------------------------------------- *)
TransportErrors == {"ODataError", "TimeoutError"}

Resp(kind, exc, body, served, S, nid) ==
    [kind |-> kind, exc |-> exc, body |-> body, served |-> served, items |-> S, nextId |-> nid]

Failures(S, nid) == {Resp("fail", e, None, "", S, nid) : e \in TransportErrors}

\* GET /drives/{drive}/items/{addr}
ItemGet(S, nid, drive, addr) ==
    LET r == ResolveAddr(S, drive, addr)
    IN  Failures(S, nid) \cup
        (IF r = None THEN {Resp("nothing", "", None, "", S, nid)}
         ELSE {Resp("record", "", Some(RawOf(ItemOf(S, r[1]), sh)), r[1], S, nid) : sh \in Shapes})

RawChildren(S, folder, sh) ==
    LET kids == ChildSeq(S, folder, 1)
    IN  [value |-> IF sh = "bare" THEN None
                   ELSE Some([k \in 1..Len(kids) |-> RawOf(kids[k], sh)])]

\* GET /drives/{drive}/items/{addr}/children
ChildrenGet(S, nid, drive, addr) ==
    LET r == ResolveAddr(S, drive, addr)
    IN  Failures(S, nid) \cup
        (IF r = None \/ ~ItemOf(S, r[1]).isFolder
         THEN {Resp("nothing", "", None, "", S, nid)}
         ELSE {Resp("record", "", Some(RawChildren(S, r[1], sh)), r[1], S, nid) : sh \in Shapes})

\* GET /drives/{drive}/items/{addr}/content
ContentGet(S, nid, drive, addr) ==
    LET r == ResolveAddr(S, drive, addr)
    IN  Failures(S, nid) \cup
        (IF r = None \/ ItemOf(S, r[1]).isFolder
         THEN {Resp("nothing", "", None, "", S, nid)}
         ELSE {Resp("record", "", Some(ItemOf(S, r[1]).content), r[1], S, nid)})

\* The first rename candidate no sibling uses.
FreshName(S, folder, name) ==
    LET c == RenameCandidates(name)
        free == {k \in 1..Len(c) : ChildNamed(S, folder, c[k]) = None}
    IN  c[CHOOSE k \in free : \A j \in free : k <= j]

CONFLICT_KEY == "@microsoft.graph.conflictBehavior"

\* A write that creates `it` answers its record, or nothing after the effect.
Created(S, nid, it) ==
    {Resp("record", "", Some(RawOf(it, sh)), it.id, S \cup {it}, nid + 1) : sh \in Shapes}
    \cup {Resp("nothing", "", None, it.id, S \cup {it}, nid + 1)}

\* Creating or replacing the child `name` of `folder` under a conflict policy.
WriteChild(S, nid, folder, name, isFolder, content, policy) ==
    LET old == ChildNamed(S, folder, name)
        new(n) == [id |-> IdSeq[nid], name |-> n, parent |-> folder,
                   isFolder |-> isFolder, content |-> content]
    IN  IF old = None
        THEN (IF nid <= MaxItems THEN Created(S, nid, new(name)) ELSE {})
        ELSE IF policy = "rename"
        THEN (IF nid <= MaxItems THEN Created(S, nid, new(FreshName(S, folder, name))) ELSE {})
        ELSE IF policy = "replace" /\ ~isFolder /\ ~ItemOf(S, old[1]).isFolder
        THEN LET was == ItemOf(S, old[1])
                 now == [was EXCEPT !.content = content]
                 S2 == (S \ {was}) \cup {now}
             IN  {Resp("record", "", Some(RawOf(now, sh)), now.id, S2, nid) : sh \in Shapes}
                 \cup {Resp("nothing", "", None, now.id, S2, nid)}
        ELSE {}

\* PUT /drives/{drive}/items/{base}:/{path}:/content with an optional
\* conflict policy; without one the service default for PUT applies.
ContentPut(S, nid, drive, addr, content, policy) ==
    LET wellFormed == Len(addr) >= 4 /\ addr[2] = ":/" /\ addr[Len(addr)] = ":"
        path == SubSeq(addr, 3, Len(addr) - 1)
        folder == IF drive = "D1" /\ wellFormed /\ HasItem(S, addr[1])
                  THEN Walk(S, addr[1], SubSeq(path, 1, Len(path) - 2))
                  ELSE None
        name == path[Len(path)]
        effective == IF policy = None THEN "replace" ELSE policy[1]
    IN  Failures(S, nid) \cup
        (IF folder = None \/ ~ItemOf(S, folder[1]).isFolder THEN {}
         ELSE WriteChild(S, nid, folder[1], name, FALSE, content, effective))

\* POST /drives/{drive}/items/{addr}/children with a DriveItem body; the
\* conflict policy travels in the body's additional data.
ChildrenPost(S, nid, drive, addr, body) ==
    LET r == ResolveAddr(S, drive, addr)
        policy == DictGet(body.additional_data, CONFLICT_KEY)
        effective == IF policy = None THEN "fail" ELSE policy[1]
    IN  Failures(S, nid) \cup
        (IF r = None \/ ~ItemOf(S, r[1]).isFolder THEN {}
         ELSE WriteChild(S, nid, r[1], body.name, TRUE, <<>>, effective))

\* DELETE /drives/{drive}/items/{addr}: the item and everything below it.
ItemDelete(S, nid, drive, addr) ==
    LET r == ResolveAddr(S, drive, addr)
    IN  Failures(S, nid) \cup
        (IF r = None \/ r = Some("root") THEN {}
         ELSE LET it == ItemOf(S, r[1])
              IN  {Resp("nothing", "", None, it.id, S \ ({it} \cup Descendants(S, it.id)), nid)})

(* ---------------------------------------------------------------------- *)
(* The signed-in user and the site directory (not changed by this client)  *)
(* ---------------------------------------------------------------------- *)
SiteS1 == [id |-> Some("S1"), name |-> Some("s1"), display_name |-> Some("Site One"), web_url |-> Some("https://h/s1")]

SiteS3 == [id |-> Some("S3"), name |-> Some("s3"), display_name |-> None, web_url |-> None]

BareSite == [id |-> None, name |-> None, display_name |-> None, web_url |-> None]

\* The site an address names: "<hostname>:<path>" or a site identifier.
SiteAt(addr) ==
    IF addr = <<"h", ":", "/s1">> \/ addr = <<"S1">> THEN Some(SiteS1)
    ELSE IF addr = <<"h", ":", "/s3">> \/ addr = <<"S3">> THEN Some(SiteS3)
    ELSE None

\* GET /sites/{addr}
SiteGet(S, nid, addr) ==
    LET site == SiteAt(addr)
    IN  Failures(S, nid) \cup
        (IF site = None THEN {Resp("nothing", "", None, "", S, nid)}
         ELSE {Resp("record", "", Some(site[1]), site[1].id[1], S, nid),
               Resp("record", "", Some(BareSite), site[1].id[1], S, nid)})

\* GET /sites/{addr}/drive: only site S1 owns a default drive.
SiteDriveGet(S, nid, addr) ==
    Failures(S, nid) \cup
        (IF SiteAt(addr) # Some(SiteS1) THEN {Resp("nothing", "", None, "", S, nid)}
         ELSE {Resp("record", "", Some([id |-> Some("D1")]), "D1", S, nid),
               Resp("record", "", Some([id |-> None]), "D1", S, nid)})

\* GET /me
MeGet(S, nid) ==
    Failures(S, nid) \cup
        {Resp("nothing", "", None, "", S, nid),
         Resp("record", "", Some([display_name |-> Some("Ann")]), "me", S, nid),
         Resp("record", "", Some([display_name |-> None]), "me", S, nid)}

\* GET /me/drive
MeDriveGet(S, nid) ==
    Failures(S, nid) \cup
        {Resp("nothing", "", None, "", S, nid),
         Resp("record", "", Some([id |-> Some("D1")]), "D1", S, nid),
         Resp("record", "", Some([id |-> None]), "D1", S, nid)}

\* GET /me/followedSites
FollowedSitesGet(S, nid) ==
    Failures(S, nid) \cup
        {Resp("nothing", "", None, "", S, nid),
         Resp("record", "", Some([value |-> None]), "me", S, nid),
         Resp("record", "", Some([value |-> Some(<<>>)]), "me", S, nid),
         Resp("record", "", Some([value |-> Some(<<SiteS1, SiteS3, BareSite>>)]), "me", S, nid)}

(* ---------------------------------------------------------------------- *)
(* Facade: results computed from a transport response                      *)
(* ---------------------------------------------------------------------- *)
\* Variant: the transport's failure is translated into a not-found error.
Propagate_AsNotFound(resp) == Raise("FileNotFoundError", <<"transport">>)

\* Nothing in the facade catches what the transport raises.
Propagate(resp) == Raise(resp.exc, <<"transport">>)

Req(method, what, drive, addr, policy, resp) ==
    [method |-> method, what |-> what, drive |-> drive, addr |-> addr,
     policy |-> policy, kind |-> resp.kind, exc |-> resp.exc, body |-> resp.body,
     served |-> resp.served]

NewCall(op, drive, item, path, name, content, dest) ==
    [op |-> op, drive |-> drive, item |-> item, path |-> path, name |-> name,
     content |-> content, dest |-> dest]

NoCall == NewCall("", "", "", <<>>, "", <<>>, <<>>)

SiteInfo(site) ==
    [id |-> OrElse(site.id, ""),
     name |-> OrElse(site.name, ""),
     display_name |-> OrElse(site.display_name, OrElse(site.name, "")),
     web_url |-> site.web_url]

get_user_display_name_result(resp) ==
    IF resp.kind = "fail" THEN Propagate(resp)
    ELSE IF resp.kind = "nothing" \/ resp.body[1].display_name = None THEN Ok("User")
    ELSE Ok(resp.body[1].display_name[1])

get_my_drive_id_result(resp) ==
    IF resp.kind = "fail" THEN Propagate(resp)
    ELSE IF resp.kind = "nothing" \/ resp.body[1].id = None
    THEN Raise("FileNotFoundError", <<"Could not resolve the current user's OneDrive drive ID.">>)
    ELSE Ok(resp.body[1].id[1])

list_followed_sites_result(resp) ==
    IF resp.kind = "fail" THEN Propagate(resp)
    ELSE IF resp.kind = "nothing" \/ resp.body[1].value = None THEN Ok(<<>>)
    ELSE LET v == resp.body[1].value[1]
         IN  Ok([k \in 1..Len(v) |-> SiteInfo(v[k])])

get_site_default_drive_id_result(resp, site_id) ==
    IF resp.kind = "fail" THEN Propagate(resp)
    ELSE IF resp.kind = "nothing" \/ resp.body[1].id = None
    THEN Raise("FileNotFoundError", <<"Default drive not found for site ", site_id>>)
    ELSE Ok(resp.body[1].id[1])

\* get_site_drive_id, lines 178-181: the site lookup.
get_site_drive_id_site_result(resp, hostname, site_path) ==
    IF resp.kind = "fail" THEN Propagate(resp)
    ELSE IF resp.kind = "nothing"
    THEN Raise("FileNotFoundError", <<"Site not found: ", hostname, ":", site_path>>)
    ELSE NoOutcome

\* get_site_drive_id, lines 183-187: the drive lookup returns drive.id or "".
get_site_drive_id_result(resp, hostname, site_path) ==
    IF resp.kind = "fail" THEN Propagate(resp)
    ELSE IF resp.kind = "nothing"
    THEN Raise("FileNotFoundError", <<"Default drive not found for site ", hostname, ":", site_path>>)
    ELSE Ok(OrElse(resp.body[1].id, ""))

\* The list comprehension over result.value: the first record that cannot
\* be normalized raises out of the comprehension.
Normalized(rawSeq) ==
    LET outs == [k \in 1..Len(rawSeq) |-> to_drive_item_info(rawSeq[k])]
        bad == {k \in 1..Len(rawSeq) : outs[k].kind = "raise"}
    IN  IF bad # {} THEN outs[CHOOSE k \in bad : \A j \in bad : k <= j]
        ELSE Ok([k \in 1..Len(rawSeq) |-> outs[k].value[1]])

list_items_result(resp) ==
    IF resp.kind = "fail" THEN Propagate(resp)
    ELSE IF resp.kind = "nothing" \/ resp.body[1].value = None THEN Ok(<<>>)
    ELSE Normalized(resp.body[1].value[1])

\* Variant: the not-found message leaves the path out.
list_items_by_path_resolve_result_NoPath(resp, path) ==
    IF resp.kind = "fail" THEN Propagate(resp)
    ELSE IF resp.kind = "nothing"
    THEN Raise("FileNotFoundError", <<"Folder not found">>)
    ELSE NoOutcome

\* list_items_by_path, lines 221-228: the resolve step.
list_items_by_path_resolve_result(resp, path) ==
    IF resp.kind = "fail" THEN Propagate(resp)
    ELSE IF resp.kind = "nothing"
    THEN Raise("FileNotFoundError", <<"Folder not found at path: ">> \o path)
    ELSE NoOutcome

\* list_items_by_path, line 229: the folder handed to list_items.
ResolvedFolderId(folder_item) == OrElse(folder_item.id, "root")

get_item_result(resp, item_id) ==
    IF resp.kind = "fail" THEN Propagate(resp)
    ELSE IF resp.kind = "nothing"
    THEN Raise("FileNotFoundError", <<"Item not found: ", item_id>>)
    ELSE to_drive_item_info(resp.body[1])

upload_result(resp, what) ==
    IF resp.kind = "fail" THEN Propagate(resp)
    ELSE IF resp.kind = "nothing"
    THEN Raise("RuntimeError", <<"Upload returned no metadata for ">> \o what)
    ELSE to_drive_item_info(resp.body[1])

\* Variant: the DriveItem is posted without a conflict behaviour.
NewFolder_NoPolicy(folder_name) ==
    [name |-> folder_name, folder |-> Some("folder"), additional_data |-> EmptyDict]

\* create_folder, lines 375-379: the DriveItem posted.
NewFolder(folder_name) ==
    [name |-> folder_name, folder |-> Some("folder"),
     additional_data |-> [k \in {CONFLICT_KEY} |-> "rename"]]

create_folder_result(resp, folder_name) ==
    IF resp.kind = "fail" THEN Propagate(resp)
    ELSE IF resp.kind = "nothing"
    THEN Raise("RuntimeError", <<"Folder creation returned no metadata for ", folder_name>>)
    ELSE to_drive_item_info(resp.body[1])

delete_item_result(resp) ==
    IF resp.kind = "fail" THEN Propagate(resp) ELSE Ok("None")

\* Variant: the FolderInfo is built without the children listed.
get_folder_info_result_NoChildren(folder_meta, listing) ==
    IF listing.kind = "raise" THEN listing
    ELSE Ok([id |-> folder_meta.id, name |-> folder_meta.name,
             children |-> <<>>, web_url |-> folder_meta.web_url])

\* get_folder_info, lines 420-426: children listed, then the FolderInfo built.
get_folder_info_result(folder_meta, listing) ==
    IF listing.kind = "raise" THEN listing
    ELSE Ok([id |-> folder_meta.id, name |-> folder_meta.name,
             children |-> listing.value[1], web_url |-> folder_meta.web_url])

(* ---------------------------------------------------------------------- *)
(* Local filesystem used by download_file                                  *)
(* ---------------------------------------------------------------------- *)
FilePaths(F) == {f.path : f \in F}

\* pathlib: destination / name ("" leaves the path as it is).
Join(destination, name) == IF name = "" THEN destination ELSE Append(destination, name)

Parents(p) == {SubSeq(p, 1, k) : k \in 1..(Len(p) - 1)}

\* Variant: the remote name is used alone, not joined to the directory.
DownloadTarget_NameOnly(destination, isDir, meta_name) ==
    IF isDir THEN <<meta_name>> ELSE destination

\* download_file, lines 277-279: where the bytes go.
DownloadTarget(destination, isDir, meta_name) ==
    IF isDir THEN Join(destination, meta_name) ELSE destination

\* download_file, lines 290-293: mkdir(parents=True, exist_ok=True) on the
\* parent, write_bytes, return the path.  Answers [dirs, files, outcome].
WriteDownload(D, F, target, content) ==
    IF Parents(target) \cap FilePaths(F) # {}
    THEN [dirs |-> D, files |-> F, outcome |-> Raise("FileExistsError", target)]
    ELSE IF target \in D
    THEN [dirs |-> D \cup Parents(target), files |-> F,
          outcome |-> Raise("IsADirectoryError", target)]
    ELSE [dirs |-> D \cup Parents(target),
          files |-> {f \in F : f.path # target} \cup {[path |-> target, content |-> content]},
          outcome |-> Ok(target)]

\* download_file, lines 281-293: from the content response to the end.
download_file_finish(D, F, resp, item_id, target) ==
    IF resp.kind = "fail"
    THEN [dirs |-> D, files |-> F, outcome |-> Propagate(resp)]
    ELSE IF resp.kind = "nothing"
    THEN [dirs |-> D, files |-> F,
          outcome |-> Raise("FileNotFoundError", <<"No content returned for item ", item_id>>)]
    ELSE WriteDownload(D, F, target, resp.body[1])

(* ---------------------------------------------------------------------- *)
(* Caller inputs                                                           *)
(* ---------------------------------------------------------------------- *)
DriveIds == {"D1", "D2"}

ItemArgs == IdsUpTo(MaxItems) \cup {"root", "missing"}

PathArgs == {<<"a">>, <<"b">>, <<"b", "/", "a">>, <<"nope">>}

SiteIdArgs == {"S1", "S3", "S9"}

Hostnames == {"h"}

SitePaths == {"/s1", "/s3", "/nope"}

Destinations == {<<"out">>, <<"out", "a">>, <<"out", "a", "x">>, <<"new", "sub", "f">>}

(* ---------------------------------------------------------------------- *)
(* Initial state                                                           *)
(* ---------------------------------------------------------------------- *)
InitItems ==
    {[id |-> "i1", name |-> "a", parent |-> "root", isFolder |-> FALSE, content |-> <<7>>],
     [id |-> "i2", name |-> "b", parent |-> "root", isFolder |-> TRUE, content |-> <<>>],
     [id |-> "i3", name |-> "a", parent |-> "i2", isFolder |-> FALSE, content |-> <<7>>]}

InitFiles == {[path |-> <<"out", "a">>, content |-> <<1>>]}

DriveInit ==
    /\ items = InitItems
    /\ nextId = 4
    /\ envLeft = MaxEnv
    /\ dirs = {<<"out">>}
    /\ files = InitFiles
    /\ pc = "idle"
    /\ call = NoCall
    /\ local = None
    /\ reqs = <<>>
    /\ outcome = NoOutcome
    /\ callsLeft = MaxCalls
    /\ during = <<>>

DriveIdle ==
    /\ items = InitItems
    /\ nextId = 4
    /\ envLeft = 0
    /\ dirs = {<<"out">>}
    /\ files = InitFiles
    /\ pc = "idle"
    /\ call = NoCall
    /\ local = None
    /\ reqs = <<>>
    /\ outcome = NoOutcome
    /\ callsLeft = 0
    /\ during = <<>>

NormIdle ==
    /\ raw = None
    /\ out = NoOutcome

FactoryIdle ==
    /\ cache = None
    /\ constructed = 0
    /\ tpc = [t \in 1..MaxThreads |-> "idle"]
    /\ tmine = [t \in 1..MaxThreads |-> 0]
    /\ tret = [t \in 1..MaxThreads |-> <<>>]
    /\ tcalls = [t \in 1..MaxThreads |-> 0]

Init == DriveInit /\ NormIdle /\ FactoryIdle

(* ---------------------------------------------------------------------- *)
(* Facade operations: one action per handler, or per awaited request of a  *)
(* handler that awaits more than once.                                     *)
(* ---------------------------------------------------------------------- *)
Begin(c) ==
    /\ pc = "idle"
    /\ callsLeft > 0
    /\ callsLeft' = callsLeft - 1
    /\ call' = c
    /\ during' = <<items>>

\* The call ends with outcome oc after the request rq answered by resp.
EndWith(rq, resp, oc) ==
    /\ reqs' = Append(reqs, rq)
    /\ items' = resp.items
    /\ nextId' = resp.nextId
    /\ outcome' = oc
    /\ pc' = "done"
    /\ local' = None

\* The call goes on at `next` holding `value`, unless the step ended it.
StepWith(rq, resp, oc, next, value) ==
    /\ reqs' = Append(reqs, rq)
    /\ items' = resp.items
    /\ nextId' = resp.nextId
    /\ outcome' = oc
    /\ pc' = IF oc.kind = "none" THEN next ELSE "done"
    /\ local' = IF oc.kind = "none" THEN value ELSE None

Elsewhere == UNCHANGED <<envLeft, raw, out, cache, constructed, tpc, tmine, tret, tcalls>>

get_user_display_name ==
    /\ Begin(NewCall("get_user_display_name", "", "", <<>>, "", <<>>, <<>>))
    /\ \E resp \in MeGet(items, nextId) :
          EndWith(Req("GET", "me", "", <<>>, None, resp), resp,
                  get_user_display_name_result(resp))
    /\ UNCHANGED <<dirs, files>>
    /\ Elsewhere

get_my_drive_id ==
    /\ Begin(NewCall("get_my_drive_id", "", "", <<>>, "", <<>>, <<>>))
    /\ \E resp \in MeDriveGet(items, nextId) :
          EndWith(Req("GET", "me.drive", "", <<>>, None, resp), resp,
                  get_my_drive_id_result(resp))
    /\ UNCHANGED <<dirs, files>>
    /\ Elsewhere

list_followed_sites ==
    /\ Begin(NewCall("list_followed_sites", "", "", <<>>, "", <<>>, <<>>))
    /\ \E resp \in FollowedSitesGet(items, nextId) :
          EndWith(Req("GET", "me.followed_sites", "", <<>>, None, resp), resp,
                  list_followed_sites_result(resp))
    /\ UNCHANGED <<dirs, files>>
    /\ Elsewhere

get_site_default_drive_id ==
    \E site_id \in SiteIdArgs :
        /\ Begin(NewCall("get_site_default_drive_id", "", site_id, <<>>, "", <<>>, <<>>))
        /\ \E resp \in SiteDriveGet(items, nextId, <<site_id>>) :
              EndWith(Req("GET", "site.drive", "", <<site_id>>, None, resp), resp,
                      get_site_default_drive_id_result(resp, site_id))
        /\ UNCHANGED <<dirs, files>>
        /\ Elsewhere

get_site_drive_id_site ==
    \E hostname \in Hostnames, site_path \in SitePaths :
        /\ Begin(NewCall("get_site_drive_id", "", hostname, <<site_path>>, "", <<>>, <<>>))
        /\ \E resp \in SiteGet(items, nextId, <<hostname, ":", site_path>>) :
              StepWith(Req("GET", "site", "", <<hostname, ":", site_path>>, None, resp), resp,
                       get_site_drive_id_site_result(resp, hostname, site_path),
                       "gsd_drive",
                       IF resp.kind = "record" THEN Some(OrElse(resp.body[1].id, "")) ELSE None)
        /\ UNCHANGED <<dirs, files>>
        /\ Elsewhere

get_site_drive_id_drive ==
    /\ pc = "gsd_drive"
    /\ \E resp \in SiteDriveGet(items, nextId, local) :
          EndWith(Req("GET", "site.drive", "", local, None, resp), resp,
                  get_site_drive_id_result(resp, call.item, call.path[1]))
    /\ UNCHANGED <<call, callsLeft, during, dirs, files>>
    /\ Elsewhere

\* Variant: drive and item identifiers are swapped in the delete request.
delete_item_request_Swapped(drive_id, item_id) == [drive |-> item_id, addr |-> <<drive_id>>]

\* delete_item, lines 400-404: the drive and the item the delete addresses.
delete_item_request(drive_id, item_id) == [drive |-> drive_id, addr |-> <<item_id>>]

\* f"root:/{path}:"
PathAddr(path) == <<"root", ":/">> \o path \o <<":">>

\* f"{parent_folder_id}:/{filename}:"
ChildAddr(parent_folder_id, filename) == <<parent_folder_id, ":/", filename, ":">>

\* A step that awaited a nested facade call: go on only if it returned.
Continue(oc) == IF oc.kind = "ok" THEN NoOutcome ELSE oc

list_items ==
    \E drive_id \in DriveIds, folder_id \in ItemArgs :
        /\ Begin(NewCall("list_items", drive_id, folder_id, <<>>, "", <<>>, <<>>))
        /\ \E resp \in ChildrenGet(items, nextId, drive_id, <<folder_id>>) :
              EndWith(Req("GET", "children", drive_id, <<folder_id>>, None, resp), resp,
                      list_items_result(resp))
        /\ UNCHANGED <<dirs, files>>
        /\ Elsewhere

list_items_by_path_resolve ==
    \E drive_id \in DriveIds, path \in PathArgs :
        /\ Begin(NewCall("list_items_by_path", drive_id, "", path, "", <<>>, <<>>))
        /\ \E resp \in ItemGet(items, nextId, drive_id, PathAddr(path)) :
              StepWith(Req("GET", "item", drive_id, PathAddr(path), None, resp), resp,
                       list_items_by_path_resolve_result(resp, path),
                       "lbp_list", resp.body)
        /\ UNCHANGED <<dirs, files>>
        /\ Elsewhere

list_items_by_path_list ==
    /\ pc = "lbp_list"
    /\ LET folder_id == ResolvedFolderId(local[1])
       IN  \E resp \in ChildrenGet(items, nextId, call.drive, <<folder_id>>) :
              EndWith(Req("GET", "children", call.drive, <<folder_id>>, None, resp), resp,
                      list_items_result(resp))
    /\ UNCHANGED <<call, callsLeft, during, dirs, files>>
    /\ Elsewhere

get_item ==
    \E drive_id \in DriveIds, item_id \in ItemArgs :
        /\ Begin(NewCall("get_item", drive_id, item_id, <<>>, "", <<>>, <<>>))
        /\ \E resp \in ItemGet(items, nextId, drive_id, <<item_id>>) :
              EndWith(Req("GET", "item", drive_id, <<item_id>>, None, resp), resp,
                      get_item_result(resp, item_id))
        /\ UNCHANGED <<dirs, files>>
        /\ Elsewhere

\* download_file into an existing directory: the name comes from get_item.
download_file_meta ==
    \E drive_id \in DriveIds, item_id \in ItemArgs, destination \in Destinations :
        /\ destination \in dirs
        /\ Begin(NewCall("download_file", drive_id, item_id, <<>>, "", <<>>, destination))
        /\ \E resp \in ItemGet(items, nextId, drive_id, <<item_id>>) :
              LET meta == get_item_result(resp, item_id)
              IN  StepWith(Req("GET", "item", drive_id, <<item_id>>, None, resp), resp,
                           Continue(meta), "dl_content",
                           IF meta.kind = "ok"
                           THEN Some(DownloadTarget(destination, TRUE, meta.value[1].name))
                           ELSE None)
        /\ UNCHANGED <<dirs, files>>
        /\ Elsewhere

download_file_content ==
    /\ pc = "dl_content"
    /\ \E resp \in ContentGet(items, nextId, call.drive, <<call.item>>) :
          LET fin == download_file_finish(dirs, files, resp, call.item, local[1])
          IN  /\ EndWith(Req("GET", "content", call.drive, <<call.item>>, None, resp), resp,
                         fin.outcome)
              /\ dirs' = fin.dirs
              /\ files' = fin.files
    /\ UNCHANGED <<call, callsLeft, during>>
    /\ Elsewhere

\* download_file to a destination that is not an existing directory.
download_file ==
    \E drive_id \in DriveIds, item_id \in ItemArgs, destination \in Destinations :
        /\ destination \notin dirs
        /\ Begin(NewCall("download_file", drive_id, item_id, <<>>, "", <<>>, destination))
        /\ \E resp \in ContentGet(items, nextId, drive_id, <<item_id>>) :
              LET fin == download_file_finish(dirs, files, resp, item_id,
                                              DownloadTarget(destination, FALSE, ""))
              IN  /\ EndWith(Req("GET", "content", drive_id, <<item_id>>, None, resp), resp,
                             fin.outcome)
                  /\ dirs' = fin.dirs
                  /\ files' = fin.files
        /\ Elsewhere

\* upload_file sends the bytes and nothing else: no conflict policy.
upload_file ==
    \E drive_id \in DriveIds, parent_folder_id \in ItemArgs,
       filename \in CallerNames, content \in Contents :
        /\ Begin(NewCall("upload_file", drive_id, parent_folder_id, <<>>, filename, content, <<>>))
        /\ LET addr == ChildAddr(parent_folder_id, filename)
           IN  \E resp \in ContentPut(items, nextId, drive_id, addr, content, None) :
                  EndWith(Req("PUT", "content", drive_id, addr, None, resp), resp,
                          upload_result(resp, <<filename>>))
        /\ UNCHANGED <<dirs, files>>
        /\ Elsewhere

upload_file_by_path ==
    \E drive_id \in DriveIds, remote_path \in PathArgs, content \in Contents :
        /\ Begin(NewCall("upload_file_by_path", drive_id, "", remote_path, "", content, <<>>))
        /\ LET addr == PathAddr(remote_path)
           IN  \E resp \in ContentPut(items, nextId, drive_id, addr, content, None) :
                  EndWith(Req("PUT", "content", drive_id, addr, None, resp), resp,
                          upload_result(resp, remote_path))
        /\ UNCHANGED <<dirs, files>>
        /\ Elsewhere

create_folder ==
    \E drive_id \in DriveIds, parent_folder_id \in ItemArgs, folder_name \in CallerNames :
        /\ Begin(NewCall("create_folder", drive_id, parent_folder_id, <<>>, folder_name, <<>>, <<>>))
        /\ LET new_folder == NewFolder(folder_name)
           IN  \E resp \in ChildrenPost(items, nextId, drive_id, <<parent_folder_id>>, new_folder) :
                  EndWith(Req("POST", "children", drive_id, <<parent_folder_id>>,
                              DictGet(new_folder.additional_data, CONFLICT_KEY), resp),
                          resp, create_folder_result(resp, folder_name))
        /\ UNCHANGED <<dirs, files>>
        /\ Elsewhere

delete_item ==
    \E drive_id \in DriveIds, item_id \in ItemArgs :
        /\ Begin(NewCall("delete_item", drive_id, item_id, <<>>, "", <<>>, <<>>))
        /\ LET rq == delete_item_request(drive_id, item_id)
           IN  \E resp \in ItemDelete(items, nextId, rq.drive, rq.addr) :
                  EndWith(Req("DELETE", "item", rq.drive, rq.addr, None, resp), resp,
                          delete_item_result(resp))
        /\ UNCHANGED <<dirs, files>>
        /\ Elsewhere

get_folder_info_meta ==
    \E drive_id \in DriveIds, folder_id \in ItemArgs :
        /\ Begin(NewCall("get_folder_info", drive_id, folder_id, <<>>, "", <<>>, <<>>))
        /\ \E resp \in ItemGet(items, nextId, drive_id, <<folder_id>>) :
              LET folder_meta == get_item_result(resp, folder_id)
              IN  StepWith(Req("GET", "item", drive_id, <<folder_id>>, None, resp), resp,
                           Continue(folder_meta), "gfi_list", folder_meta.value)
        /\ UNCHANGED <<dirs, files>>
        /\ Elsewhere

get_folder_info_children ==
    /\ pc = "gfi_list"
    /\ \E resp \in ChildrenGet(items, nextId, call.drive, <<call.item>>) :
          EndWith(Req("GET", "children", call.drive, <<call.item>>, None, resp), resp,
                  get_folder_info_result(local[1], list_items_result(resp)))
    /\ UNCHANGED <<call, callsLeft, during, dirs, files>>
    /\ Elsewhere

\* The caller takes the result; the facade keeps nothing of the call.
Return ==
    /\ pc = "done"
    /\ pc' = "idle"
    /\ call' = NoCall
    /\ local' = None
    /\ reqs' = <<>>
    /\ outcome' = NoOutcome
    /\ during' = <<>>
    /\ UNCHANGED <<items, nextId, dirs, files, callsLeft>>
    /\ Elsewhere

(* ---------------------------------------------------------------------- *)
(* Other actors changing the remote drive between this client's requests   *)
(* ---------------------------------------------------------------------- *)
RemoteChange(S, nid) ==
    /\ envLeft > 0
    /\ pc # "done"
    /\ envLeft' = envLeft - 1
    /\ items' = S
    /\ nextId' = nid
    /\ during' = IF pc = "idle" THEN during ELSE Append(during, S)
    /\ UNCHANGED <<dirs, files, pc, call, local, reqs, outcome, callsLeft>>
    /\ UNCHANGED <<raw, out, cache, constructed, tpc, tmine, tret, tcalls>>

RemoteRename ==
    \E it \in items, n \in CallerNames :
        /\ ChildNamed(items, it.parent, n) = None
        /\ RemoteChange((items \ {it}) \cup {[it EXCEPT !.name = n]}, nextId)

RemoteDelete ==
    \E it \in items : RemoteChange(items \ ({it} \cup Descendants(items, it.id)), nextId)

RemoteCreate ==
    \E folder \in {"root"} \cup {it.id : it \in {f \in items : f.isFolder}},
       n \in CallerNames, isFolder \in BOOLEAN :
        /\ nextId <= MaxItems
        /\ ChildNamed(items, folder, n) = None
        /\ RemoteChange(items \cup {[id |-> IdSeq[nextId], name |-> n, parent |-> folder,
                                    isFolder |-> isFolder,
                                    content |-> IF isFolder THEN <<>> ELSE <<7>>]},
                        nextId + 1)

Next ==
    \/ get_user_display_name
    \/ get_my_drive_id
    \/ list_followed_sites
    \/ get_site_default_drive_id
    \/ get_site_drive_id_site
    \/ get_site_drive_id_drive
    \/ list_items
    \/ list_items_by_path_resolve
    \/ list_items_by_path_list
    \/ get_item
    \/ download_file_meta
    \/ download_file_content
    \/ download_file
    \/ upload_file
    \/ upload_file_by_path
    \/ create_folder
    \/ delete_item
    \/ get_folder_info_meta
    \/ get_folder_info_children
    \/ Return
    \/ RemoteRename
    \/ RemoteDelete
    \/ RemoteCreate

Spec == Init /\ [][Next]_vars

TypeOK ==
    /\ pc \in {"idle", "gsd_drive", "lbp_list", "dl_content", "gfi_list", "done"}
    /\ nextId \in 4..(MaxItems + 1)
    /\ \A it \in items : it.id \in IdsUpTo(MaxItems) /\ HasItem(items, it.parent)
    /\ \A a, b \in items : (a.parent = b.parent /\ a.name = b.name) => a = b
    /\ \A f \in files : f.path \notin dirs

(* ---------------------------------------------------------------------- *)
(* Normalizer on its own: every raw record, any optional part absent       *)
(* ---------------------------------------------------------------------- *)
RawItems ==
    [id : {None, Some(""), Some("i1")},
     name : {None, Some(""), Some("a")},
     size : {None, Some(0), Some(5)},
     file : {None, Some([mime_type |-> None]), Some([mime_type |-> Some("text/plain")])},
     folder : {None, Some("folder")},
     created_date_time : {None, Some("2024-01-01")},
     last_modified_date_time : {None, Some("2024-02-02")},
     web_url : {None, Some("https://h/i1")},
     additional_data : {None, Some(EmptyDict),
                        Some([k \in {DOWNLOAD_URL_KEY} |-> "https://dl/i1"])}]

NormInit ==
    /\ raw \in {Some(r) : r \in RawItems}
    /\ out = NoOutcome
    /\ DriveIdle
    /\ FactoryIdle

Normalize ==
    /\ out.kind = "none"
    /\ out' = to_drive_item_info(raw[1])
    /\ UNCHANGED raw
    /\ UNCHANGED <<driveVars, factoryVars>>

NormNext == Normalize

SpecNorm == NormInit /\ [][NormNext]_vars

(* ---------------------------------------------------------------------- *)
(* Client factory: get_onedrive_client behind functools.lru_cache, called  *)
(* from several threads.  The cache is consulted, the wrapped function     *)
(* runs outside the cache's lock, and the result is stored afterwards      *)
(* unless the key was stored meanwhile.                                    *)
(* ---------------------------------------------------------------------- *)
Threads == 1..MaxThreads

FactoryInit ==
    /\ cache = None
    /\ constructed = 0
    /\ tpc = [t \in Threads |-> "idle"]
    /\ tmine = [t \in Threads |-> 0]
    /\ tret = [t \in Threads |-> <<>>]
    /\ tcalls = [t \in Threads |-> MaxFactoryCalls]
    /\ DriveIdle
    /\ NormIdle

\* A call finds the memoized instance and returns it.
CacheHit ==
    \E t \in Threads :
        /\ tpc[t] = "idle"
        /\ tcalls[t] > 0
        /\ cache # None
        /\ tcalls' = [tcalls EXCEPT ![t] = @ - 1]
        /\ tret' = [tret EXCEPT ![t] = Append(@, cache[1])]
        /\ UNCHANGED <<cache, constructed, tpc, tmine>>
        /\ UNCHANGED <<driveVars, normVars>>

\* A call finds the cache empty and goes on to run the wrapped function.
CacheMiss ==
    \E t \in Threads :
        /\ tpc[t] = "idle"
        /\ tcalls[t] > 0
        /\ cache = None
        /\ tcalls' = [tcalls EXCEPT ![t] = @ - 1]
        /\ tpc' = [tpc EXCEPT ![t] = "miss"]
        /\ UNCHANGED <<cache, constructed, tmine, tret>>
        /\ UNCHANGED <<driveVars, normVars>>

\* get_onedrive_client's body: a credential and a client are constructed.
Construct ==
    \E t \in Threads :
        /\ tpc[t] = "miss"
        /\ constructed' = constructed + 1
        /\ tmine' = [tmine EXCEPT ![t] = constructed + 1]
        /\ tpc' = [tpc EXCEPT ![t] = "built"]
        /\ UNCHANGED <<cache, tret, tcalls>>
        /\ UNCHANGED <<driveVars, normVars>>

\* The wrapper stores the result unless another call stored one meanwhile,
\* and returns the result of its own call either way.
CacheStore ==
    \E t \in Threads :
        /\ tpc[t] = "built"
        /\ cache' = IF cache = None THEN Some(tmine[t]) ELSE cache
        /\ tret' = [tret EXCEPT ![t] = Append(@, tmine[t])]
        /\ tpc' = [tpc EXCEPT ![t] = "idle"]
        /\ UNCHANGED <<constructed, tmine, tcalls>>
        /\ UNCHANGED <<driveVars, normVars>>

FactoryNext == CacheHit \/ CacheMiss \/ Construct \/ CacheStore

SpecFactory == FactoryInit /\ [][FactoryNext]_vars

(* ---------------------------------------------------------------------- *)
(* Properties                                                              *)
(* ---------------------------------------------------------------------- *)
Last(q) == q[Len(q)]

WriteMethods == {"PUT", "POST"}

UploadOps == {"upload_file", "upload_file_by_path"}

\* The step just taken issued a request: the last of reqs'.
Issued == Len(reqs') = Len(reqs) + 1

\* The step just taken issued a write request.
IssuedWrite == Issued /\ Last(reqs').method \in WriteMethods

\* The folder and name a write of the call in progress addresses.
WriteParent(S, c) ==
    IF c.op = "upload_file_by_path"
    THEN Walk(S, "root", SubSeq(c.path, 1, Len(c.path) - 2))
    ELSE IF HasItem(S, c.item) THEN Some(c.item) ELSE None

WriteName(c) == IF c.op = "upload_file_by_path" THEN Last(c.path) ELSE c.name

\* The write of call c meets an item of the same name in its parent folder.
Conflict(S, c) ==
    /\ c.drive = "D1"
    /\ WriteParent(S, c) # None
    /\ ItemOf(S, WriteParent(S, c)[1]).isFolder
    /\ ChildNamed(S, WriteParent(S, c)[1], WriteName(c)) # None

C2_ConstructedOnce ==
    /\ constructed <= 1
    /\ \A t, u \in Threads : \A i \in DOMAIN tret[t], j \in DOMAIN tret[u] :
          tret[t][i] = tret[u][j]

\* C3 as stated: list_items_by_path fetches root:/<path>: once and then lists
\* the folder that fetch resolved, whatever the resolved record carries as
\* its identifier, returning what list_items returns for it.
C3_ListsResolvedFolder ==
    (call.op = "list_items_by_path" /\ Len(reqs) >= 1) =>
        /\ reqs[1].method = "GET" /\ reqs[1].what = "item"
        /\ reqs[1].drive = call.drive
        /\ reqs[1].addr = <<"root", ":/">> \o call.path \o <<":">>
        /\ Len(reqs) = 2 =>
              /\ reqs[2].method = "GET" /\ reqs[2].what = "children"
              /\ reqs[2].drive = call.drive
              /\ reqs[2].addr = <<reqs[1].served>>

C4Ops == {"get_item", "download_file", "list_items_by_path",
          "get_site_default_drive_id", "get_site_drive_id"}

\* The caller-supplied key a not-found message has to name.
C4Key(c) ==
    IF c.op = "list_items_by_path" THEN c.path
    ELSE IF c.op = "get_site_drive_id" THEN <<c.item, ":", c.path[1]>>
    ELSE <<c.item>>

\* The fetch made for the caller's key came back with nothing.
KeyFetchNothing ==
    /\ call.op \in C4Ops
    /\ \E k \in DOMAIN reqs :
          /\ reqs[k].kind = "nothing"
          /\ call.op = "list_items_by_path" => k = 1

\* C4: when the fetch for the caller's key returns nothing, the operation
\* has ended in a not-found error whose message embeds that key, and
\* list_items_by_path has issued no children listing.
C4_NotFoundNamesKey ==
    KeyFetchNothing =>
        /\ pc = "done"
        /\ Last(reqs).kind = "nothing"
        /\ outcome.kind = "raise"
        /\ outcome.exc = "FileNotFoundError"
        /\ Contains(outcome.msg, C4Key(call))
        /\ call.op = "list_items_by_path" => Len(reqs) = 1

\* list_items_by_path on a path that resolves to nothing.
C4_Witness ==
    /\ call.op = "list_items_by_path"
    /\ pc = "done"
    /\ Len(reqs) = 1
    /\ reqs[1].kind = "nothing"
    /\ outcome.exc = "FileNotFoundError"
    /\ call.path = <<"b", "/", "a">>

\* A transport failure is left out of the outcomes C5 speaks of.
NoTransportFailure == \A k \in DOMAIN reqs : reqs[k].kind # "fail"

\* C5 as stated: get_site_drive_id either returns the non-empty identifier of
\* the site's default drive or fails with not-found, and it fails with
\* not-found when the drive record is absent or carries no identifier.
C5_DriveIdOrNotFound ==
    (call.op = "get_site_drive_id" /\ pc = "done" /\ NoTransportFailure) =>
        \/ outcome.kind = "ok" /\ outcome.value[1] # ""
        \/ outcome.kind = "raise" /\ outcome.exc = "FileNotFoundError"

\* C6: a download that succeeds returns the target it wrote: the
\* destination joined with the name get_item returned when the destination
\* is an existing directory, the destination itself otherwise; the target's
\* parent chain exists and the file holds the bytes the transport returned.
C6_DownloadWritesTarget ==
    (call.op = "download_file" /\ pc = "done" /\ outcome.kind = "ok") =>
        LET target == outcome.value[1]
            intoDir == call.dest \in dirs
        IN  /\ intoDir <=> Len(reqs) = 2
            /\ intoDir =>
                  /\ reqs[1].what = "item"
                  /\ target = Join(call.dest, OrElse(reqs[1].body[1].name, ""))
            /\ ~intoDir => target = call.dest
            /\ Last(reqs).what = "content"
            /\ Parents(target) \subseteq dirs
            /\ [path |-> target, content |-> Last(reqs).body[1]] \in files
            /\ \A f \in files : f.path = target => f.content = Last(reqs).body[1]

\* A download into the existing directory "out", named after the remote item.
C6_Witness ==
    /\ call.op = "download_file"
    /\ pc = "done"
    /\ outcome.kind = "ok"
    /\ call.dest = <<"out">>
    /\ Len(outcome.value[1]) = 2
    /\ \E f \in files : f.path = outcome.value[1]

\* C7 as stated: for every raw record, whichever optional parts are absent
\* (the additional-data side channel included), the normalizer returns a
\* value: absent id and name become "", every other absent field stays
\* unknown, the size is the record's, mime_type is unknown without a file
\* marker, is_folder says whether the folder marker is present and is_file
\* is its negation.
C7_NormalizerNeverFails ==
    out.kind # "none" =>
        /\ out.kind = "ok"
        /\ LET info == out.value[1]
               item == raw[1]
           IN  /\ item.id = None => info.id = ""
               /\ item.name = None => info.name = ""
               /\ info.size = item.size
               /\ info.created_at = item.created_date_time
               /\ info.modified_at = item.last_modified_date_time
               /\ info.web_url = item.web_url
               /\ item.file = None => info.mime_type = None
               /\ info.is_folder <=> item.folder # None
               /\ is_file(info) <=> ~info.is_folder
               /\ (item.additional_data = None
                   \/ DOWNLOAD_URL_KEY \notin DOMAIN item.additional_data[1])
                      => info.download_url = None

\* How complete an item record is: the shape the transport gave it.
ItemShape(rec) ==
    IF rec.additional_data = None THEN "nodata"
    ELSE IF rec.id = None THEN "bare" ELSE "full"

\* How complete the answer to a children request is.
ListShape(req) ==
    IF req.kind # "record" THEN "full"
    ELSE IF req.body[1].value = None THEN "bare"
    ELSE IF \E k \in DOMAIN req.body[1].value[1] :
               req.body[1].value[1][k].additional_data = None THEN "nodata"
    ELSE "full"

\* What list_items returns when the remote state S answers it, as complete
\* as sh says.
Listings(S, drive_id, folder_id, sh) ==
    {list_items_result(r) :
        r \in {q \in ChildrenGet(S, 0, drive_id, <<folder_id>>) :
                  \/ q.kind = "nothing"
                  \/ q.kind = "record" /\ q.body[1] = RawChildren(S, q.served, sh)}}

\* What get_item returns when the remote state S answers it.
Metas(S, drive_id, folder_id, sh) ==
    {get_item_result(r, folder_id) :
        r \in {q \in ItemGet(S, 0, drive_id, <<folder_id>>) :
                  q.kind = "record" /\ q.body[1] = RawOf(ItemOf(S, q.served), sh)}}

\* What get_folder_info returns when both of its requests are answered from
\* the one remote state S.
Snapshots(S, drive_id, folder_id, sh1, sh2) ==
    {get_folder_info_result(m.value[1], l) :
        m \in {x \in Metas(S, drive_id, folder_id, sh1) : x.kind = "ok"},
        l \in Listings(S, drive_id, folder_id, sh2)}

\* C8 as stated: the FolderInfo get_folder_info returns is what one single
\* state of the remote, among those the call spanned, answers for both the
\* folder and its children; and the call fails with not-found, listing
\* nothing, when the folder does not exist.
C8_SingleStateSnapshot ==
    (call.op = "get_folder_info" /\ pc = "done") =>
        /\ outcome.kind = "ok" =>
              \E k \in DOMAIN during :
                 outcome \in Snapshots(during[k], call.drive, call.item,
                                       ItemShape(reqs[1].body[1]), ListShape(reqs[2]))
        /\ reqs[1].kind = "nothing" =>
              /\ outcome.exc = "FileNotFoundError"
              /\ Len(reqs) = 1

\* C8 amended: the FolderInfo is composed of two successive answers: its
\* id, name and web_url are those of the folder in the remote state that
\* answered get-item, its children those the remote state that answered the
\* listing holds for it (none if the folder is gone by then); when no remote
\* change fell between the two requests it is what one single state
\* answers.  The call fails with not-found, without listing, when get-item
\* returns nothing.
C8_TwoStateSnapshot ==
    (call.op = "get_folder_info" /\ pc = "done") =>
        /\ outcome.kind = "ok" =>
              /\ Len(reqs) = 2
              /\ \E m \in Metas(during[1], call.drive, call.item, ItemShape(reqs[1].body[1])) :
                    /\ m.kind = "ok"
                    /\ outcome.value[1].id = m.value[1].id
                    /\ outcome.value[1].name = m.value[1].name
                    /\ outcome.value[1].web_url = m.value[1].web_url
              /\ \E l \in Listings(Last(during), call.drive, call.item, ListShape(reqs[2])) :
                    /\ l.kind = "ok"
                    /\ outcome.value[1].children = l.value[1]
              /\ Len(during) = 1 =>
                    outcome \in Snapshots(during[1], call.drive, call.item,
                                          ItemShape(reqs[1].body[1]), ListShape(reqs[2]))
        /\ reqs[1].kind = "nothing" =>
              /\ outcome.exc = "FileNotFoundError"
              /\ Contains(outcome.msg, <<call.item>>)
              /\ Len(reqs) = 1

\* get_folder_info returned although the remote changed between its requests.
C8_Witness ==
    /\ call.op = "get_folder_info"
    /\ pc = "done"
    /\ outcome.kind = "ok"
    /\ Len(during) = 2
    /\ outcome.value[1].children # <<>>

\* C9: a request the transport fails ends the operation there: the outcome
\* is that failure as raised, no request follows a failed one, and the step
\* changes neither the local filesystem nor the remote.
C9_TransportFailurePropagates ==
    [][Issued =>
          /\ \A k \in DOMAIN reqs : reqs[k].kind # "fail"
          /\ Last(reqs').kind = "fail" =>
                /\ pc' = "done"
                /\ outcome'.kind = "raise"
                /\ outcome'.exc = Last(reqs').exc
                /\ outcome'.exc \in TransportErrors
                /\ outcome'.msg = <<"transport">>
                /\ dirs' = dirs
                /\ files' = files
                /\ items' = items]_vars

\* download_file into a directory whose content fetch failed after the
\* metadata fetch succeeded.
C9_Witness ==
    /\ call.op = "download_file"
    /\ pc = "done"
    /\ Len(reqs) = 2
    /\ reqs[2].kind = "fail"
    /\ outcome.exc = reqs[2].exc

ReadOps == {"get_user_display_name", "get_my_drive_id", "list_followed_sites",
            "get_site_default_drive_id", "get_site_drive_id", "list_items",
            "list_items_by_path", "get_item", "download_file", "get_folder_info"}

\* Items of S that S2 no longer holds as they were: removed, or content replaced.
Destroyed(S, S2) ==
    {it \in S : \A now \in S2 : now.id = it.id => now.content # it.content}

\* The request r is the one delete of call c, for exactly its drive and item.
DeleteOf(c, r, n) ==
    /\ c.op = "delete_item"
    /\ r.method = "DELETE"
    /\ r.drive = c.drive
    /\ r.addr = <<c.item>>
    /\ n = 1

====
